---- MODULE Spec2Model ----
(***************************************************************************)
(* Model of scripts/generate_slot_configs.py: the IO pad budgeting and     *)
(* allocation pipeline of the GF180MCU project template.                   *)
(*                                                                         *)
(*   geometry -> capacity -> density policy -> signal/power split          *)
(*            -> per-edge allocation -> ordered pad sequence               *)
(*                                                                         *)
(* Python's float arithmetic (int(a / b), int(n * ratio)) is modelled by   *)
(* exact integer truncation toward zero; on every input the model draws    *)
(* the two agree.                                                          *)
(***************************************************************************)
EXTENDS Integers, Sequences, FiniteSets, TLC

VARIABLES
    slot,              \* SlotDefinition record
    density,           \* Density value: "def", "max", "spc", "num"
    edges,             \* Edges value: "all", "top", "lft", "hor", "ver", "nwc", "sec"
    iter_order,        \* iteration order of the active_edges set (hash order)
    pc,                \* position in generate_config_yaml / main
    max_pads,          \* calculate_max_pads_per_edge(slot)
    total_pads,        \* calculate_pads_for_density(...)[0]
    pads_per_edge,     \* calculate_pads_for_density(...)[1]
    signal_pads,       \* distribute_pads_with_power: signal_pads
    power_pads,        \* distribute_pads_with_power: power_pads
    edge_signal,       \* generate_config_yaml: edge_signal
    edge_power,        \* generate_config_yaml: edge_power
    signal_remaining,  \* generate_config_yaml: signal_remaining
    power_remaining,   \* generate_config_yaml: power_remaining
    sorted_edges,      \* generate_config_yaml: sorted_edges
    loop_i,            \* index of the next edge in the running pass
    bidir_idx,         \* generate_config_yaml: bidir_idx
    vdd_idx,           \* generate_config_yaml: vdd_idx
    vss_idx,           \* generate_config_yaml: vss_idx
    yaml_data,         \* generate_config_yaml: the four pad lists of yaml_data
    g_args,            \* generate_edge_pads: the arguments of the running call
    g_pc,              \* generate_edge_pads: position in the call
    g_signal_count,    \* generate_edge_pads: signal_count (after the clk/rst deduction)
    g_pads,            \* generate_edge_pads: pads
    g_bidir_idx,       \* generate_edge_pads: bidir_idx
    g_vdd_idx,         \* generate_edge_pads: vdd_idx
    g_vss_idx,         \* generate_edge_pads: vss_idx
    global_power_idx,  \* generate_edge_pads: global_power_idx
    power_placed,      \* generate_edge_pads: power_placed
    signal_placed,     \* generate_edge_pads: signal_placed
    signals_per_power, \* generate_edge_pads: signals_per_power
    verilog_defines,   \* generate_config_yaml: verilog_defines / yaml_data["VERILOG_DEFINES"]
    core_area,         \* generate_config_yaml: yaml_data["CORE_AREA"]
    pdn_cfg,           \* generate_config_yaml: yaml_data["PDN_CFG"] is set
    artifact,          \* generate_config_yaml: the file written
    slot_info,         \* SlotInfo parse_slot_yaml returns for the file
    m_pc,              \* main / copy_default_config: position
    m_i,               \* main: number of the (slot, density, edges) iteration
    ref_present,       \* slots whose reference file slot_<name>.yaml exists
    files,             \* the files of the output directory, by name
    generated_files,   \* main: generated_files
    content            \* copy_default_config: content

inputVars == <<slot, density, edges, iter_order>>

resolveVars == <<max_pads, total_pads, pads_per_edge>>

partVars == <<signal_pads, power_pads>>

allocVars == <<edge_signal, edge_power, signal_remaining, power_remaining,
               sorted_edges, loop_i>>

cfgVars == <<bidir_idx, vdd_idx, vss_idx, yaml_data>>

genVars == <<g_args, g_pc, g_signal_count, g_pads, g_bidir_idx, g_vdd_idx,
             g_vss_idx, global_power_idx, power_placed, signal_placed,
             signals_per_power>>

outVars == <<verilog_defines, core_area, pdn_cfg, artifact, slot_info>>

mainVars == <<m_pc, m_i, ref_present, files, generated_files, content>>

vars == <<inputVars, pc, resolveVars, partVars, allocVars, cfgVars, genVars, outVars,
          mainVars>>

---------------------------------------------------------------------------
(* Bounds of the model *)

\* largest total handed to distribute_pads_with_power on its own
MaxTotal == 216

\* die sizes tried on the capacity calculator: GeomStep * k, k in 0..MaxGeomK
GeomStep == 37

MaxGeomK == 30

\* arguments tried on generate_edge_pads on its own
MaxSignalCount == 8

MaxPowerCount == 3

MaxStart == 1

---------------------------------------------------------------------------
(* Constants from the GF180MCU PDK *)

IO_CELL_WIDTH == 75

CORNER_CELL_SIZE == 355

SEAL_RING == 26

CORE_MARGIN_DEFAULT == 442

REF_1X1_PAD_COUNT == 74

\* power_ratio = 0.15, as the fraction POWER_RATIO_NUM / POWER_RATIO_DEN
POWER_RATIO_NUM == 15

POWER_RATIO_DEN == 100

DEFAULT_PAD_COUNTS ==
    [n \in {"1x1", "0p5x1", "1x0p5", "0p5x0p5"} |->
        CASE n = "1x1" -> 74
          [] n = "0p5x1" -> 72
          [] n = "1x0p5" -> 72
          [] n = "0p5x0p5" -> 56]

RTL_PAD_MAX_DEFAULTS ==
    [n \in {"1x1", "0p5x1", "1x0p5", "0p5x0p5"} |->
        CASE n = "1x1" -> [dvdd |-> 8, dvss |-> 10, bidir |-> 168]
          [] n = "0p5x1" -> [dvdd |-> 8, dvss |-> 8, bidir |-> 122]
          [] n = "1x0p5" -> [dvdd |-> 8, dvss |-> 8, bidir |-> 108]
          [] n = "0p5x0p5" -> [dvdd |-> 4, dvss |-> 4, bidir |-> 62]]

PHYSICAL_PAD_LIMITS ==
    [n \in {"1x1", "0p5x1", "1x0p5", "0p5x0p5"} |->
        CASE n = "1x1" -> [dvdd |-> 15, dvss |-> 15]
          [] n = "0p5x1" -> [dvdd |-> 11, dvss |-> 11]
          [] n = "1x0p5" -> [dvdd |-> 10, dvss |-> 10]
          [] n = "0p5x0p5" -> [dvdd |-> 6, dvss |-> 6]]

Edge == {"north", "south", "east", "west"}

Density == {"def", "max", "spc", "num"}

Edges == {"all", "top", "lft", "hor", "ver", "nwc", "sec"}

active_edges(ed) ==
    CASE ed = "all" -> {"north", "south", "east", "west"}
      [] ed = "top" -> {"north"}
      [] ed = "lft" -> {"west"}
      [] ed = "hor" -> {"north", "south"}
      [] ed = "ver" -> {"east", "west"}
      [] ed = "nwc" -> {"north", "west"}
      [] ed = "sec" -> {"south", "east"}

SlotDefinition(n, w, h, x1, y1, x2, y2, def) ==
    [name |-> n, die_width |-> w, die_height |-> h,
     core_x1 |-> x1, core_y1 |-> y1, core_x2 |-> x2, core_y2 |-> y2,
     verilog_define |-> def]

SLOTS ==
    [n \in {"1x1", "0p5x1", "1x0p5", "0p5x0p5"} |->
        CASE n = "1x1" ->
                SlotDefinition("1x1", 3932, 5122, 442, 442, 3490, 4680, "SLOT_1X1")
          [] n = "0p5x1" ->
                SlotDefinition("0p5x1", 1936, 5122, 442, 442, 1494, 4680, "SLOT_0P5X1")
          [] n = "1x0p5" ->
                SlotDefinition("1x0p5", 3932, 2531, 442, 442, 3490, 2089, "SLOT_1X0P5")
          [] n = "0p5x0p5" ->
                SlotDefinition("0p5x0p5", 1936, 2531, 442, 442, 1494, 2089, "SLOT_0P5X0P5")]

SlotNames == DOMAIN SLOTS

---------------------------------------------------------------------------
(* Arithmetic helpers *)

Min(a, b) == IF a <= b THEN a ELSE b

Min3(a, b, c) == Min(a, Min(b, c))

\* Python int(a / b) for b > 0: truncation toward zero
TruncDiv(a, b) == IF a >= 0 THEN a \div b ELSE -((-a) \div b)

\* Python a % 2 (result is 0 or 1 also for negative a)
PyMod2(a) == a % 2

RECURSIVE SumOver(_, _)
\* sum(f[e] for e in S)
SumOver(f, S) ==
    IF S = {} THEN 0
    ELSE LET e == CHOOSE x \in S : TRUE IN f[e] + SumOver(f, S \ {e})

\* all orders a set may be iterated in
Orderings(S) ==
    {s \in [1..Cardinality(S) -> S] : \A i, j \in 1..Cardinality(S) : i # j => s[i] # s[j]}

\* mutant of SortedLex: descending order of the edge names
SortedLex_Descending(S) ==
    SelectSeq(<<"west", "south", "north", "east">>, LAMBDA e : e \in S)

\* sorted(active): lexicographic order of the edge names
SortedLex(S) == SelectSeq(<<"east", "north", "south", "west">>, LAMBDA e : e \in S)

RECURSIVE InsertDesc(_, _, _)
\* insert x into the descending sequence s after every element whose key is >= key[x]
InsertDesc(x, s, key) ==
    IF s = <<>> THEN <<x>>
    ELSE IF key[Head(s)] >= key[x] THEN <<Head(s)>> \o InsertDesc(x, Tail(s), key)
    ELSE <<x>> \o s

RECURSIVE SortedDesc(_, _, _)
\* sorted(seq, key=..., reverse=True): stable, equal keys keep the order of seq
SortedDesc(seq, key, acc) ==
    IF seq = <<>> THEN acc
    ELSE SortedDesc(Tail(seq), key, InsertDesc(Head(seq), acc, key))

---------------------------------------------------------------------------
(* Capacity Calculator *)

\* mutant of EdgeCapacity: only one corner cell is subtracted
EdgeCapacity_OneCorner(die_len) ==
    TruncDiv(die_len - CORNER_CELL_SIZE - 2 * SEAL_RING, IO_CELL_WIDTH)

EdgeCapacity(die_len) ==
    TruncDiv(die_len - 2 * CORNER_CELL_SIZE - 2 * SEAL_RING, IO_CELL_WIDTH)

calculate_max_pads_per_edge(s) ==
    [e \in Edge |->
        IF e \in {"north", "south"} THEN EdgeCapacity(s.die_width)
        ELSE EdgeCapacity(s.die_height)]

get_1x1_max_pads == calculate_max_pads_per_edge(SLOTS["1x1"])

---------------------------------------------------------------------------
(* Density Resolver *)

\* target of an edge that is not the last of edge_list
ProportionalShare(target_total, cap, total_capacity) ==
    Min(TruncDiv(target_total * cap, total_capacity), cap)

\* mutant of LastEdgeShare: the remainder is not capped at the edge's capacity
LastEdgeShare_Uncapped(remaining, cap) == remaining

\* target of the last edge of edge_list
LastEdgeShare(remaining, cap) == Min(remaining, cap)

RECURSIVE DistributeLoop(_, _, _, _, _, _)
\* the loop "for i, e in enumerate(edge_list)" of the DEF and NUM branches
DistributeLoop(edge_list, i, remaining, target_total, total_capacity, caps) ==
    IF i > Len(edge_list) THEN [e \in {} |-> 0]
    ELSE LET e == edge_list[i]
             v == IF i = Len(edge_list)
                  THEN LastEdgeShare(remaining, caps[e])
                  ELSE ProportionalShare(target_total, caps[e], total_capacity)
             rest == DistributeLoop(edge_list, i + 1, remaining - v, target_total,
                                    total_capacity, caps)
         IN [x \in {e} \cup DOMAIN rest |-> IF x = e THEN v ELSE rest[x]]

\* mutant of DistributeTarget: an excluded edge gets an entry with target 0
DistributeTarget_AllEdges(policy_total, caps, active) ==
    LET total_capacity == SumOver(caps, active)
        target_total == Min(policy_total, total_capacity)
        r == DistributeLoop(SortedLex(active), 1, target_total, target_total,
                            total_capacity, caps)
    IN [e \in Edge |-> IF e \in active THEN r[e] ELSE 0]

\* DEF and NUM: proportional distribution of a policy total
DistributeTarget(policy_total, caps, active) ==
    LET total_capacity == SumOver(caps, active)
        target_total == Min(policy_total, total_capacity)
    IN DistributeLoop(SortedLex(active), 1, target_total, target_total,
                      total_capacity, caps)

\* mutant of MaxTarget: one pad position short of the capacity
MaxTarget_OneShort(cap) == cap - 1

MaxTarget(cap) == cap

\* mutant of SpcTarget: the 1x1 count whatever the capacity of the edge
SpcTarget_Reference(cap, ref_cap) == ref_cap

SpcTarget(cap, ref_cap) == Min(cap, ref_cap)

PadsPerEdge(s, d, ed) ==
    LET caps == calculate_max_pads_per_edge(s)
        ref == get_1x1_max_pads
        active == active_edges(ed)
    IN CASE d = "def" -> DistributeTarget(DEFAULT_PAD_COUNTS[s.name], caps, active)
         [] d = "max" -> [e \in active |-> MaxTarget(caps[e])]
         [] d = "spc" -> [e \in active |-> SpcTarget(caps[e], ref[e])]
         [] d = "num" -> DistributeTarget(REF_1X1_PAD_COUNT, caps, active)

calculate_pads_for_density(s, d, ed) ==
    LET ppe == PadsPerEdge(s, d, ed)
    IN [total |-> SumOver(ppe, DOMAIN ppe), pads_per_edge |-> ppe]

---------------------------------------------------------------------------
(* Signal/Power Partitioner *)

get_rtl_signal_limit(slot_name) == RTL_PAD_MAX_DEFAULTS[slot_name].bidir + 2

get_rtl_power_limit(slot_name) ==
    PHYSICAL_PAD_LIMITS[slot_name].dvdd + PHYSICAL_PAD_LIMITS[slot_name].dvss

\* mutant of RatioPower: the count is not rounded up to an even number
RatioPower_NoRound(available) ==
    TruncDiv(available * POWER_RATIO_NUM, POWER_RATIO_DEN)

\* power_pads before the caps: int(available * power_ratio), made even
RatioPower(available) ==
    LET p == TruncDiv(available * POWER_RATIO_NUM, POWER_RATIO_DEN)
    IN IF PyMod2(p) = 1 THEN p + 1 ELSE p

\* mutant of ClampSignal: the two clk/rst positions are not counted
ClampSignal_NoReserve(sig, signal_limit) ==
    IF sig > signal_limit THEN signal_limit ELSE sig

ClampSignal(sig, signal_limit) == IF sig + 2 > signal_limit THEN signal_limit - 2 ELSE sig

ClampPower(pow, power_limit) == IF pow > power_limit THEN power_limit ELSE pow

---------------------------------------------------------------------------
(* Edge Allocator: the arithmetic of the three passes *)

\* f with f[e] set to v (e added to the domain when new)
SetEntry(f, e, v) == [x \in DOMAIN f \cup {e} |-> IF x = e THEN v ELSE f[x]]

\* int(budget * ratio), ratio = edge_capacity / total_pads if total_pads > 0 else 0
RatioShare(budget, edge_capacity, total) ==
    IF total > 0 THEN TruncDiv(budget * edge_capacity, total) ELSE 0

\* first pass: edge_sig
FirstPassSignal(total_signal_positions, edge_capacity, total, sig_remaining) ==
    Min3(RatioShare(total_signal_positions, edge_capacity, total), sig_remaining,
         edge_capacity)

\* first pass: edge_pow
FirstPassPower(pow_budget, edge_capacity, total, pow_remaining, remaining_capacity) ==
    Min3(RatioShare(pow_budget, edge_capacity, total), pow_remaining,
         remaining_capacity)

\* mutant of RemainderAdd: the whole remainder is placed, whatever the room
RemainderAdd_Overfill(remaining, available) == remaining

\* second and third pass: add = min(remaining, available)
RemainderAdd(remaining, available) == Min(remaining, available)


\* the allocator's running state
AllocState(es, ep, sr, pr) ==
    [edge_signal |-> es, edge_power |-> ep, signal_remaining |-> sr,
     power_remaining |-> pr]

\* body of the first pass for edge e
ProportionalEdge(a, e, ppe, total, total_signal_positions, pow_budget) ==
    LET edge_capacity == ppe[e]
        edge_sig == FirstPassSignal(total_signal_positions, edge_capacity, total,
                                    a.signal_remaining)
        remaining_capacity == edge_capacity - edge_sig
        edge_pow == FirstPassPower(pow_budget, edge_capacity, total,
                                   a.power_remaining, remaining_capacity)
    IN AllocState(SetEntry(a.edge_signal, e, edge_sig),
                  SetEntry(a.edge_power, e, edge_pow),
                  a.signal_remaining - edge_sig,
                  a.power_remaining - edge_pow)

\* mutant of SignalRemainderEdge: signal_remaining is not decremented
SignalRemainderEdge_NoDecrement(a, e, ppe) ==
    LET available == ppe[e] - a.edge_signal[e] - a.edge_power[e]
        add == IF available > 0 THEN Min(a.signal_remaining, available) ELSE 0
    IN [a EXCEPT !.edge_signal = SetEntry(a.edge_signal, e, a.edge_signal[e] + add)]

\* body of the second pass for edge e (after the break test)
SignalRemainderEdge(a, e, ppe) ==
    LET available == ppe[e] - a.edge_signal[e] - a.edge_power[e]
        add == IF available > 0 THEN RemainderAdd(a.signal_remaining, available) ELSE 0
    IN AllocState(SetEntry(a.edge_signal, e, a.edge_signal[e] + add),
                  a.edge_power,
                  a.signal_remaining - add,
                  a.power_remaining)

\* mutant of PowerRemainderEdge: the power remainder takes positions from the
\* signal pads of the edge
PowerRemainderEdge_Displace(a, e, ppe) ==
    LET add == Min(a.power_remaining, a.edge_signal[e])
    IN AllocState(SetEntry(a.edge_signal, e, a.edge_signal[e] - add),
                  SetEntry(a.edge_power, e, a.edge_power[e] + add),
                  a.signal_remaining + add,
                  a.power_remaining - add)

\* body of the third pass for edge e (after the break test)
PowerRemainderEdge(a, e, ppe) ==
    LET available == ppe[e] - a.edge_signal[e] - a.edge_power[e]
        add == IF available > 0 THEN RemainderAdd(a.power_remaining, available) ELSE 0
    IN AllocState(a.edge_signal,
                  SetEntry(a.edge_power, e, a.edge_power[e] + add),
                  a.signal_remaining,
                  a.power_remaining - add)

RECURSIVE FirstPass(_, _, _, _, _, _, _)
\* the first pass from its i-th edge on
FirstPass(a, order, i, ppe, total, total_signal_positions, pow_budget) ==
    IF i > Len(order) THEN a
    ELSE FirstPass(ProportionalEdge(a, order[i], ppe, total, total_signal_positions,
                                    pow_budget),
                   order, i + 1, ppe, total, total_signal_positions, pow_budget)

RECURSIVE SignalPass(_, _, _, _)
\* the second pass from its i-th edge on
SignalPass(a, sorted, i, ppe) ==
    IF i > Len(sorted) \/ a.signal_remaining <= 0 THEN a
    ELSE SignalPass(SignalRemainderEdge(a, sorted[i], ppe), sorted, i + 1, ppe)

RECURSIVE PowerPass(_, _, _, _)
\* the third pass from its i-th edge on
PowerPass(a, sorted, i, ppe) ==
    IF i > Len(sorted) \/ a.power_remaining <= 0 THEN a
    ELSE PowerPass(PowerRemainderEdge(a, sorted[i], ppe), sorted, i + 1, ppe)

\* the three passes when the set active_edges is iterated in the order `order`
AllocateEdges(order, ppe, total, sig_pads, pow_pads) ==
    LET a0 == AllocState([e \in {} |-> 0], [e \in {} |-> 0], sig_pads + 2, pow_pads)
        sorted == SortedDesc(order, ppe, <<>>)
        a1 == FirstPass(a0, order, 1, ppe, total, sig_pads + 2, pow_pads)
        a2 == SignalPass(a1, sorted, 1, ppe)
    IN PowerPass(a2, sorted, 1, ppe)

CurrentAlloc == AllocState(edge_signal, edge_power, signal_remaining, power_remaining)

EmptyMap == [e \in {} |-> 0]

NoPads == [d \in {} |-> <<>>]

\* no file (nothing written, nothing read)
NoFile == [name |-> "", text |-> [kind |-> "none"]]

\* an empty directory
NoFiles == [f \in {} |-> NoFile]

NoArgs == [edge_pad_count |-> 0, signal_count |-> 0, power_count |-> 0,
           bidir_start |-> 0, vdd_start |-> 0, vss_start |-> 0,
           include_clk_rst |-> FALSE, reverse |-> FALSE]

---------------------------------------------------------------------------
(* Initial states *)

InitLocals ==
    /\ max_pads = EmptyMap
    /\ total_pads = 0
    /\ pads_per_edge = EmptyMap
    /\ signal_pads = 0
    /\ power_pads = 0
    /\ edge_signal = EmptyMap
    /\ edge_power = EmptyMap
    /\ signal_remaining = 0
    /\ power_remaining = 0
    /\ sorted_edges = <<>>
    /\ loop_i = 0
    /\ bidir_idx = 0
    /\ vdd_idx = 0
    /\ vss_idx = 0
    /\ yaml_data = NoPads

InitGen ==
    /\ g_args = NoArgs
    /\ g_pc = "idle"
    /\ g_signal_count = 0
    /\ g_pads = <<>>
    /\ g_bidir_idx = 0
    /\ g_vdd_idx = 0
    /\ g_vss_idx = 0
    /\ global_power_idx = 0
    /\ power_placed = 0
    /\ signal_placed = 0
    /\ signals_per_power = 0

\* no file parsed
NoInfo == [name |-> ""]

\* nothing built, written or parsed yet
InitOut ==
    /\ verilog_defines = <<>>
    /\ core_area = <<>>
    /\ pdn_cfg = FALSE
    /\ artifact = NoFile
    /\ slot_info = NoInfo

\* main is not running
InitNoMain ==
    /\ m_pc = "off"
    /\ m_i = 0
    /\ ref_present = {}
    /\ files = NoFiles
    /\ generated_files = <<>>
    /\ content = NoFile.text

\* generate_config_yaml(slot, density, edges, output_dir) on any triple; the
\* set active_edges is iterated in an order fixed by the string hashes of the run
Init ==
    /\ slot \in {SLOTS[n] : n \in SlotNames}
    /\ density \in Density
    /\ edges \in Edges
    /\ iter_order \in Orderings(active_edges(edges))
    /\ pc = "resolve"
    /\ InitLocals
    /\ InitGen
    /\ InitOut
    /\ InitNoMain

---------------------------------------------------------------------------
(* generate_config_yaml: budget and allocation *)

\* total_pads, pads_per_edge = calculate_pads_for_density(slot, density, edges)
ResolveDensity ==
    /\ pc = "resolve"
    /\ max_pads' = calculate_max_pads_per_edge(slot)
    /\ total_pads' = calculate_pads_for_density(slot, density, edges).total
    /\ pads_per_edge' = calculate_pads_for_density(slot, density, edges).pads_per_edge
    /\ pc' = "partition"
    /\ UNCHANGED <<outVars, mainVars>>
    /\ UNCHANGED <<inputVars, partVars, allocVars, cfgVars, genVars>>

\* distribute_pads_with_power: the ratio computation
PartitionRatio ==
    /\ pc = "partition"
    /\ LET available == total_pads - 2
       IN /\ power_pads' = RatioPower(available)
          /\ signal_pads' = available - RatioPower(available)
    /\ pc' = "clamp"
    /\ UNCHANGED <<outVars, mainVars>>
    /\ UNCHANGED <<inputVars, resolveVars, allocVars, cfgVars, genVars>>

\* distribute_pads_with_power: the RTL limits
PartitionClamp ==
    /\ pc = "clamp"
    /\ signal_pads' = ClampSignal(signal_pads, get_rtl_signal_limit(slot.name))
    /\ power_pads' = ClampPower(power_pads, get_rtl_power_limit(slot.name))
    /\ pc' = "setup"
    /\ UNCHANGED <<outVars, mainVars>>
    /\ UNCHANGED <<inputVars, resolveVars, allocVars, cfgVars, genVars>>

\* the budgets and the visiting order of the remainder passes
AllocSetup ==
    /\ pc = "setup"
    /\ edge_signal' = EmptyMap
    /\ edge_power' = EmptyMap
    /\ signal_remaining' = signal_pads + 2
    /\ power_remaining' = power_pads
    /\ sorted_edges' = SortedDesc(iter_order, pads_per_edge, <<>>)
    /\ loop_i' = 1
    /\ pc' = "proportional"
    /\ UNCHANGED <<outVars, mainVars>>
    /\ UNCHANGED <<inputVars, resolveVars, partVars, cfgVars, genVars>>

\* first pass, one edge of "for e in active_edges"
ProportionalStep ==
    /\ pc = "proportional"
    /\ loop_i <= Len(iter_order)
    /\ LET r == ProportionalEdge(CurrentAlloc, iter_order[loop_i], pads_per_edge,
                                 total_pads, signal_pads + 2, power_pads)
       IN /\ edge_signal' = r.edge_signal
          /\ edge_power' = r.edge_power
          /\ signal_remaining' = r.signal_remaining
          /\ power_remaining' = r.power_remaining
    /\ IF loop_i = Len(iter_order)
       THEN pc' = "signal_rem" /\ loop_i' = 1
       ELSE pc' = pc /\ loop_i' = loop_i + 1
    /\ UNCHANGED <<outVars, mainVars>>
    /\ UNCHANGED <<inputVars, resolveVars, partVars, sorted_edges, cfgVars, genVars>>

\* second pass, one edge of "for e in sorted_edges"
SignalRemainderStep ==
    /\ pc = "signal_rem"
    /\ loop_i <= Len(sorted_edges)
    /\ signal_remaining > 0
    /\ LET r == SignalRemainderEdge(CurrentAlloc, sorted_edges[loop_i], pads_per_edge)
       IN /\ edge_signal' = r.edge_signal
          /\ edge_power' = r.edge_power
          /\ signal_remaining' = r.signal_remaining
          /\ power_remaining' = r.power_remaining
    /\ loop_i' = loop_i + 1
    /\ UNCHANGED <<outVars, mainVars>>
    /\ UNCHANGED <<inputVars, pc, resolveVars, partVars, sorted_edges, cfgVars, genVars>>

\* second pass: break, or the list is exhausted
SignalRemainderDone ==
    /\ pc = "signal_rem"
    /\ (loop_i > Len(sorted_edges) \/ signal_remaining <= 0)
    /\ pc' = "power_rem"
    /\ loop_i' = 1
    /\ UNCHANGED <<outVars, mainVars>>
    /\ UNCHANGED <<inputVars, resolveVars, partVars, edge_signal, edge_power,
                   signal_remaining, power_remaining, sorted_edges, cfgVars, genVars>>

\* third pass, one edge of "for e in sorted_edges"
PowerRemainderStep ==
    /\ pc = "power_rem"
    /\ loop_i <= Len(sorted_edges)
    /\ power_remaining > 0
    /\ LET r == PowerRemainderEdge(CurrentAlloc, sorted_edges[loop_i], pads_per_edge)
       IN /\ edge_signal' = r.edge_signal
          /\ edge_power' = r.edge_power
          /\ signal_remaining' = r.signal_remaining
          /\ power_remaining' = r.power_remaining
    /\ loop_i' = loop_i + 1
    /\ UNCHANGED <<outVars, mainVars>>
    /\ UNCHANGED <<inputVars, pc, resolveVars, partVars, sorted_edges, cfgVars, genVars>>

\* third pass: break, or the list is exhausted
PowerRemainderDone ==
    /\ pc = "power_rem"
    /\ (loop_i > Len(sorted_edges) \/ power_remaining <= 0)
    /\ pc' = "yaml"
    /\ loop_i' = 1
    /\ UNCHANGED <<outVars, mainVars>>
    /\ UNCHANGED <<inputVars, resolveVars, partVars, edge_signal, edge_power,
                   signal_remaining, power_remaining, sorted_edges, cfgVars, genVars>>

---------------------------------------------------------------------------
(* Pad Sequence Generator: generate_edge_pads *)

\* a pad instance: clk_pad, rst_n_pad (idx unused, 0), bidir[idx], dvdd_pads[idx],
\* dvss_pads[idx]
Pad(kind, idx) == [kind |-> kind, idx |-> idx]

\* mutant of Signals: the bidir index restarts at 0 on every run of pads
Signals_FromZero(start, n) == [i \in 1..n |-> Pad("bidir", i - 1)]

\* n consecutive bidir pads from index start (nothing when n <= 0, as range(n))
Signals(start, n) == [i \in 1..n |-> Pad("bidir", start + i - 1)]

\* list(reversed(s))
Reversed(s) == [i \in 1..Len(s) |-> s[Len(s) + 1 - i]]

\* s[2:]
From3(s) == IF Len(s) <= 2 THEN <<>> ELSE SubSeq(s, 3, Len(s))

\* s[:2]
First2(s) == IF Len(s) <= 2 THEN s ELSE SubSeq(s, 1, 2)

\* mutant of ApplyReverse: the whole list is reversed, clk/rst included
ApplyReverse_Whole(s, include_clk_rst, reverse) ==
    IF reverse THEN Reversed(s) ELSE s

\* the "if reverse:" block
ApplyReverse(s, include_clk_rst, reverse) ==
    IF ~reverse THEN s
    ELSE IF include_clk_rst THEN First2(s) \o Reversed(From3(s))
    ELSE Reversed(s)

\* mutant of SignalsPerPower: the signals are divided by power_count
SignalsPerPower_PerPad(signal_count, power_count) == signal_count \div power_count

\* signal_count // (power_count + 1)
SignalsPerPower(signal_count, power_count) == signal_count \div (power_count + 1)

\* the power pad placed when the alternation counter is gpi
PowerPad(gpi, vdd, vss) ==
    IF gpi % 2 = 0 THEN Pad("dvss_pads", vss) ELSE Pad("dvdd_pads", vdd)

Max0(n) == IF n > 0 THEN n ELSE 0

\* mutant of GlobalPowerStart: the alternation restarts on every edge
GlobalPowerStart_PerEdge(vdd_start, vss_start) == 0

\* the alternation counter an edge starts from: the power pads placed so far
GlobalPowerStart(vdd_start, vss_start) == vdd_start + vss_start

\* clk/rst, the branch test and, when there is nothing to interleave, the
\* signal-only loop
GenEntry ==
    /\ g_pc = "entry"
    /\ LET clk == IF g_args.include_clk_rst
                  THEN <<Pad("clk_pad", 0), Pad("rst_n_pad", 0)>> ELSE <<>>
           sc == IF g_args.include_clk_rst THEN g_args.signal_count - 2
                 ELSE g_args.signal_count
       IN /\ g_signal_count' = sc
          /\ g_vdd_idx' = g_args.vdd_start
          /\ g_vss_idx' = g_args.vss_start
          /\ IF g_args.power_count > 0 /\ sc > 0
             THEN /\ signals_per_power' = SignalsPerPower(sc, g_args.power_count)
                  /\ g_pads' = clk
                  /\ g_bidir_idx' = g_args.bidir_start
                  /\ global_power_idx' = GlobalPowerStart(g_args.vdd_start, g_args.vss_start)
                  /\ g_pc' = "loop"
             ELSE /\ g_pads' = clk \o Signals(g_args.bidir_start, sc)
                  /\ g_bidir_idx' = g_args.bidir_start + Max0(sc)
                  /\ UNCHANGED <<signals_per_power, global_power_idx>>
                  /\ g_pc' = "reverse"
    /\ power_placed' = 0
    /\ signal_placed' = 0
    /\ UNCHANGED <<outVars, mainVars>>
    /\ UNCHANGED <<inputVars, pc, resolveVars, partVars, allocVars, cfgVars, g_args>>

\* the loop test of "while signal_placed < signal_count or power_placed < power_count"
InterleaveMore ==
    signal_placed < g_signal_count \/ power_placed < g_args.power_count

\* one iteration of the interleaving loop: a run of signal pads, then a power pad
GenLoopIter ==
    /\ g_pc = "loop"
    /\ InterleaveMore
    /\ LET n == Max0(Min(signals_per_power, g_signal_count - signal_placed))
           place == power_placed < g_args.power_count
           dvss == global_power_idx % 2 = 0
       IN /\ g_pads' = g_pads \o Signals(g_bidir_idx, n) \o
                         (IF place
                          THEN <<PowerPad(global_power_idx, g_vdd_idx, g_vss_idx)>>
                          ELSE <<>>)
          /\ g_bidir_idx' = g_bidir_idx + n
          /\ signal_placed' = signal_placed + n
          /\ g_vss_idx' = IF place /\ dvss THEN g_vss_idx + 1 ELSE g_vss_idx
          /\ g_vdd_idx' = IF place /\ ~dvss THEN g_vdd_idx + 1 ELSE g_vdd_idx
          /\ global_power_idx' = IF place THEN global_power_idx + 1 ELSE global_power_idx
          /\ power_placed' = IF place THEN power_placed + 1 ELSE power_placed
    /\ UNCHANGED <<outVars, mainVars>>
    /\ UNCHANGED <<inputVars, pc, resolveVars, partVars, allocVars, cfgVars, g_args,
                   g_pc, g_signal_count, signals_per_power>>

\* the interleaving loop ends; "Place remaining signals"
GenLoopExit ==
    /\ g_pc = "loop"
    /\ ~InterleaveMore
    /\ LET n == Max0(g_signal_count - signal_placed)
       IN /\ g_pads' = g_pads \o Signals(g_bidir_idx, n)
          /\ g_bidir_idx' = g_bidir_idx + n
          /\ signal_placed' = signal_placed + n
    /\ g_pc' = "reverse"
    /\ UNCHANGED <<outVars, mainVars>>
    /\ UNCHANGED <<inputVars, pc, resolveVars, partVars, allocVars, cfgVars, g_args,
                   g_signal_count, g_vdd_idx, g_vss_idx, global_power_idx,
                   power_placed, signals_per_power>>

\* the reversal and the return
GenReturn ==
    /\ g_pc = "reverse"
    /\ g_pads' = ApplyReverse(g_pads, g_args.include_clk_rst, g_args.reverse)
    /\ g_pc' = "returned"
    /\ UNCHANGED <<outVars, mainVars>>
    /\ UNCHANGED <<inputVars, pc, resolveVars, partVars, allocVars, cfgVars, g_args,
                   g_signal_count, g_bidir_idx, g_vdd_idx, g_vss_idx,
                   global_power_idx, power_placed, signal_placed, signals_per_power>>

---------------------------------------------------------------------------
(* generate_config_yaml: the YAML structure *)

\* margin of an edge without IO pads: seal ring + buffer, grid-aligned
margin_no_io == 130

\* f"NUM_<CATEGORY>_PADS_OVERRIDE={n}"
OverrideFlag(category, n) == "NUM_" \o category \o "_PADS_OVERRIDE=" \o ToString(n)

\* mutant of BidirDefines: the bidir override is never added
BidirDefines_NoOverride(s, d, actual_bidir) ==
    <<s.verilog_define>> \o (IF d # "def" THEN <<"MAX_IO_CONFIG">> ELSE <<>>)

\* verilog_defines before the pad lists: the slot flag, and for a density other
\* than DEF, MAX_IO_CONFIG and the bidir override when signal_pads differs from
\* the RTL default
BidirDefines(s, d, actual_bidir) ==
    <<s.verilog_define>> \o
    (IF d # "def"
     THEN <<"MAX_IO_CONFIG">> \o
          (IF actual_bidir # RTL_PAD_MAX_DEFAULTS[s.name].bidir
           THEN <<OverrideFlag("BIDIR", actual_bidir)>> ELSE <<>>)
     ELSE <<>>)

\* mutant of EdgeMargin: every edge keeps the margin of an edge with IO pads
EdgeMargin_AlwaysIo(edge, active) == CORE_MARGIN_DEFAULT

\* margin_with_io if edge in active_edges else margin_no_io
EdgeMargin(edge, active) ==
    IF edge \in active THEN CORE_MARGIN_DEFAULT ELSE margin_no_io

\* [core_x1, core_y1, core_x2, core_y2]
CoreArea(s, d, active) ==
    IF d = "def"
    THEN <<s.core_x1, s.core_y1, s.core_x2, s.core_y2>>
    ELSE <<EdgeMargin("west", active), EdgeMargin("south", active),
           s.die_width - EdgeMargin("east", active),
           s.die_height - EdgeMargin("north", active)>>

\* [0, 0, slot.die_width, slot.die_height]
DieArea(s) == <<0, 0, s.die_width, s.die_height>>

\* verilog_defines, the core area, yaml_data, PDN_CFG, and the three counters
\* set to 0
BuildYamlData ==
    /\ pc = "yaml"
    /\ verilog_defines' = BidirDefines(slot, density, signal_pads)
    /\ core_area' = CoreArea(slot, density, active_edges(edges))
    /\ pdn_cfg' = (edges # "all")
    /\ bidir_idx' = 0
    /\ vdd_idx' = 0
    /\ vss_idx' = 0
    /\ yaml_data' = NoPads
    /\ loop_i' = 1
    /\ pc' = "pads"
    /\ UNCHANGED <<artifact, slot_info, mainVars>>
    /\ UNCHANGED <<inputVars, resolveVars, partVars, edge_signal, edge_power,
                   signal_remaining, power_remaining, sorted_edges, genVars>>

---------------------------------------------------------------------------
(* generate_config_yaml: the pad lists *)

\* the order the four pad lists are generated in
Directions == <<"south", "east", "north", "west">>

\* mutant of ClkRstEdge: without south, north is tried first
ClkRstEdge_NorthFirst(active) ==
    IF "south" \in active THEN "south"
    ELSE IF "north" \in active THEN "north"
    ELSE IF "east" \in active THEN "east"
    ELSE IF "west" \in active THEN "west"
    ELSE "none"

\* the edge that gets clk/rst: south, else the first active of west, east, north
ClkRstEdge(active) ==
    IF "south" \in active THEN "south"
    ELSE IF "west" \in active THEN "west"
    ELSE IF "east" \in active THEN "east"
    ELSE IF "north" \in active THEN "north"
    ELSE "none"

\* reverse = edge_name in ("north", "west")
IsReversed(edge_name) == edge_name \in {"north", "west"}

\* an active edge: the call of generate_edge_pads
PadsEdgeCall ==
    /\ pc = "pads"
    /\ loop_i <= Len(Directions)
    /\ Directions[loop_i] \in active_edges(edges)
    /\ g_pc = "idle"
    /\ LET edge_name == Directions[loop_i]
       IN g_args' = [edge_pad_count |-> pads_per_edge[edge_name],
                     signal_count |-> edge_signal[edge_name],
                     power_count |-> edge_power[edge_name],
                     bidir_start |-> bidir_idx,
                     vdd_start |-> vdd_idx,
                     vss_start |-> vss_idx,
                     include_clk_rst |-> (ClkRstEdge(active_edges(edges)) = edge_name),
                     reverse |-> IsReversed(edge_name)]
    /\ g_pc' = "entry"
    /\ pc' = "pads_wait"
    /\ UNCHANGED <<outVars, mainVars>>
    /\ UNCHANGED <<inputVars, resolveVars, partVars, allocVars, cfgVars, g_signal_count,
                   g_pads, g_bidir_idx, g_vdd_idx, g_vss_idx, global_power_idx,
                   power_placed, signal_placed, signals_per_power>>

\* an active edge: the result of generate_edge_pads is stored
PadsEdgeReturn ==
    /\ pc = "pads_wait"
    /\ g_pc = "returned"
    /\ yaml_data' = SetEntry(yaml_data, Directions[loop_i], g_pads)
    /\ bidir_idx' = g_bidir_idx
    /\ vdd_idx' = g_vdd_idx
    /\ vss_idx' = g_vss_idx
    /\ loop_i' = loop_i + 1
    /\ g_pc' = "idle"
    /\ pc' = "pads"
    /\ UNCHANGED <<outVars, mainVars>>
    /\ UNCHANGED <<inputVars, resolveVars, partVars, edge_signal, edge_power,
                   signal_remaining, power_remaining, sorted_edges, g_args,
                   g_signal_count, g_pads, g_bidir_idx, g_vdd_idx, g_vss_idx,
                   global_power_idx, power_placed, signal_placed, signals_per_power>>

\* an edge the selection excludes: an empty list
PadsEdgeEmpty ==
    /\ pc = "pads"
    /\ loop_i <= Len(Directions)
    /\ Directions[loop_i] \notin active_edges(edges)
    /\ yaml_data' = SetEntry(yaml_data, Directions[loop_i], <<>>)
    /\ loop_i' = loop_i + 1
    /\ UNCHANGED <<outVars, mainVars>>
    /\ UNCHANGED <<inputVars, pc, resolveVars, partVars, edge_signal, edge_power,
                   signal_remaining, power_remaining, sorted_edges, bidir_idx,
                   vdd_idx, vss_idx, genVars>>

---------------------------------------------------------------------------
(* generate_config_yaml: power overrides and the file *)

\* the power overrides appended after the pad lists
PowerDefines(defs, s, d, vdd, vss) ==
    IF d = "def" THEN defs
    ELSE defs \o
         (IF vdd # RTL_PAD_MAX_DEFAULTS[s.name].dvdd
          THEN <<OverrideFlag("DVDD", vdd)>> ELSE <<>>) \o
         (IF vss # RTL_PAD_MAX_DEFAULTS[s.name].dvss
          THEN <<OverrideFlag("DVSS", vss)>> ELSE <<>>)

\* f"slot_{slot.name}_{density.value}_{edges.value}.yaml"
Filename(slot_name, d, ed) ==
    "slot_" \o slot_name \o "_" \o d \o "_" \o ed \o ".yaml"

\* the text written to the file: the header comment and the keys
FileText(s, d, ed, total, sig, pow, die, core, defs, pdn, pad_lists) ==
    [kind |-> "generated",
     slot |-> s.name, density |-> d, edges |-> ed,
     total_pads |-> total, signal_pads |-> sig, power_pads |-> pow,
     FP_SIZING |-> "absolute",
     DIE_AREA |-> die,
     CORE_AREA |-> core,
     VERILOG_DEFINES |-> defs,
     PDN_CFG |-> IF pdn THEN <<"dir::pdn_partial.tcl">> ELSE <<>>,
     PAD_SOUTH |-> pad_lists["south"],
     PAD_EAST |-> pad_lists["east"],
     PAD_NORTH |-> pad_lists["north"],
     PAD_WEST |-> pad_lists["west"]]

\* the four lists are built: the power overrides are appended
PowerOverrides ==
    /\ pc = "pads"
    /\ loop_i > Len(Directions)
    /\ verilog_defines' = PowerDefines(verilog_defines, slot, density, vdd_idx, vss_idx)
    /\ pc' = "write"
    /\ UNCHANGED <<core_area, pdn_cfg, artifact, slot_info, mainVars>>
    /\ UNCHANGED <<inputVars, resolveVars, partVars, allocVars, cfgVars, genVars>>

\* the file is written and its path returned
WriteArtifact ==
    /\ pc = "write"
    /\ artifact' = [name |-> Filename(slot.name, density, edges),
                    text |-> FileText(slot, density, edges, total_pads, signal_pads,
                                      power_pads, DieArea(slot), core_area,
                                      verilog_defines, pdn_cfg, yaml_data)]
    /\ pc' = "done"
    /\ UNCHANGED <<verilog_defines, core_area, pdn_cfg, slot_info, mainVars>>
    /\ UNCHANGED <<inputVars, resolveVars, partVars, allocVars, cfgVars, genVars>>

---------------------------------------------------------------------------
(* generate_slot_docs.py: parse_slot_yaml *)

\* data.get(key, default)
Get(data, key, default) == IF key \in DOMAIN data THEN data[key] ELSE default

\* word in str(pad), for the words parse_slot_yaml looks for: the pad strings
\* are clk_pad, rst_n_pad and <kind>\[<idx>\].pad with kind bidir, dvdd_pads
\* or dvss_pads, so that the word occurs exactly when it is the pad's kind
InPadStr(word, pad) == pad.kind = word

\* mutant of PadClass: a dvss pad counts as a power pair as well
PadClass_CountDvss(pad) ==
    IF InPadStr("bidir", pad) THEN "io_bidir"
    ELSE IF InPadStr("inputs", pad) \/ pad.kind \in {"clk_pad", "rst_n_pad"} THEN "io_inputs"
    ELSE IF InPadStr("analog", pad) THEN "io_analog"
    ELSE IF InPadStr("dvdd_pads", pad) \/ InPadStr("dvss_pads", pad) THEN "io_power_pairs"
    ELSE "none"

\* the counter the if/elif chain increments for a pad
PadClass(pad) ==
    IF InPadStr("bidir", pad) THEN "io_bidir"
    ELSE IF InPadStr("inputs", pad) \/ pad.kind \in {"clk_pad", "rst_n_pad"} THEN "io_inputs"
    ELSE IF InPadStr("analog", pad) THEN "io_analog"
    ELSE IF InPadStr("dvdd_pads", pad) THEN "io_power_pairs"
    ELSE "none"

\* the value of a counter after the loop over the four pad lists
IoCount(data, counter) ==
    LET dirs == <<"PAD_SOUTH", "PAD_EAST", "PAD_NORTH", "PAD_WEST">>
        n == [k \in 1..4 |->
                LET pads == Get(data, dirs[k], <<>>)
                IN Cardinality({i \in 1..Len(pads) : PadClass(pads[i]) = counter})]
    IN SumOver(n, 1..4)

\* Path(name).stem.replace("slot_", "") for the file names of the generator:
\* slot_<size>_<density>_<edges>.yaml
StemName(slot_name, d, ed) == slot_name \o "_" \o d \o "_" \o ed

\* the SlotInfo parse_slot_yaml returns for a file
parse_slot_yaml(file) ==
    LET data == file.text
        die_area == Get(data, "DIE_AREA", <<0, 0, 0, 0>>)
        core == Get(data, "CORE_AREA", <<0, 0, 0, 0>>)
    IN [name |-> StemName(data.slot, data.density, data.edges),
        die_width_um |-> die_area[3] - die_area[1],
        die_height_um |-> die_area[4] - die_area[2],
        core_width_um |-> core[3] - core[1],
        core_height_um |-> core[4] - core[2],
        io_bidir |-> IoCount(data, "io_bidir"),
        io_inputs |-> IoCount(data, "io_inputs"),
        io_analog |-> IoCount(data, "io_analog"),
        io_power_pairs |-> IoCount(data, "io_power_pairs")]

\* SlotInfo.io_total
io_total(info) ==
    info.io_bidir + info.io_inputs + info.io_analog + (info.io_power_pairs * 2)

\* the written file is parsed
ParseSlotYaml ==
    /\ pc = "done"
    /\ slot_info' = parse_slot_yaml(artifact)
    /\ pc' = "parsed"
    /\ UNCHANGED <<verilog_defines, core_area, pdn_cfg, artifact, mainVars>>
    /\ UNCHANGED <<inputVars, resolveVars, partVars, allocVars, cfgVars, genVars>>

---------------------------------------------------------------------------
(* The specifications *)

Next ==
    \/ ResolveDensity
    \/ PartitionRatio
    \/ PartitionClamp
    \/ AllocSetup
    \/ ProportionalStep
    \/ SignalRemainderStep
    \/ SignalRemainderDone
    \/ PowerRemainderStep
    \/ PowerRemainderDone
    \/ BuildYamlData
    \/ PadsEdgeCall
    \/ PadsEdgeReturn
    \/ PadsEdgeEmpty
    \/ PowerOverrides
    \/ WriteArtifact
    \/ ParseSlotYaml
    \/ GenEntry
    \/ GenLoopIter
    \/ GenLoopExit
    \/ GenReturn

\* generate_config_yaml on every (slot, density, edge selection)
Spec == Init /\ [][Next]_vars

\* calculate_max_pads_per_edge on its own, on dies of any size
GeomDims == {GeomStep * k : k \in 0..MaxGeomK}

InitCapacity ==
    /\ slot \in {SlotDefinition("custom", w, h, 0, 0, w, h, "SLOT_CUSTOM") :
                    w \in GeomDims, h \in GeomDims}
    /\ density = "max"
    /\ edges = "all"
    /\ iter_order = <<>>
    /\ pc = "capacity"
    /\ InitLocals
    /\ InitGen
    /\ InitOut
    /\ InitNoMain

\* max_pads = calculate_max_pads_per_edge(slot)
CapacityCall ==
    /\ pc = "capacity"
    /\ max_pads' = calculate_max_pads_per_edge(slot)
    /\ pc' = "capacity_done"
    /\ UNCHANGED <<outVars, mainVars>>
    /\ UNCHANGED <<inputVars, total_pads, pads_per_edge, partVars, allocVars, cfgVars,
                   genVars>>

NextCapacity == CapacityCall

SpecCapacity == InitCapacity /\ [][NextCapacity]_vars

\* distribute_pads_with_power on its own, on any total
InitPartition ==
    /\ slot \in {SLOTS[n] : n \in SlotNames}
    /\ density = "max"
    /\ edges = "all"
    /\ iter_order = <<>>
    /\ pc = "partition"
    /\ max_pads = EmptyMap
    /\ total_pads \in 0..MaxTotal
    /\ pads_per_edge = EmptyMap
    /\ signal_pads = 0
    /\ power_pads = 0
    /\ edge_signal = EmptyMap
    /\ edge_power = EmptyMap
    /\ signal_remaining = 0
    /\ power_remaining = 0
    /\ sorted_edges = <<>>
    /\ loop_i = 0
    /\ bidir_idx = 0
    /\ vdd_idx = 0
    /\ vss_idx = 0
    /\ yaml_data = NoPads
    /\ InitGen
    /\ InitOut
    /\ InitNoMain

NextPartition ==
    \/ PartitionRatio
    \/ PartitionClamp

SpecPartition == InitPartition /\ [][NextPartition]_vars

\* generate_edge_pads on its own, on any counts, start indices and flags
InitEdgePads ==
    /\ slot = SLOTS["1x1"]
    /\ density = "max"
    /\ edges = "all"
    /\ iter_order = <<>>
    /\ pc = "edge_pads"
    /\ InitLocals
    /\ g_args \in {[edge_pad_count |-> sc + pw, signal_count |-> sc, power_count |-> pw,
                    bidir_start |-> b, vdd_start |-> vd, vss_start |-> vs,
                    include_clk_rst |-> c, reverse |-> r] :
                      sc \in 0..MaxSignalCount, pw \in 0..MaxPowerCount,
                      b \in {0, MaxStart}, vd \in 0..MaxStart, vs \in 0..MaxStart,
                      c \in BOOLEAN, r \in BOOLEAN}
    /\ g_pc = "entry"
    /\ g_signal_count = 0
    /\ g_pads = <<>>
    /\ g_bidir_idx = 0
    /\ g_vdd_idx = 0
    /\ g_vss_idx = 0
    /\ global_power_idx = 0
    /\ power_placed = 0
    /\ signal_placed = 0
    /\ signals_per_power = 0
    /\ InitOut
    /\ InitNoMain

NextEdgePads ==
    \/ GenEntry
    \/ GenLoopIter
    \/ GenLoopExit
    \/ GenReturn

SpecEdgePads == InitEdgePads /\ [][NextEdgePads]_vars

---------------------------------------------------------------------------
(* main and copy_default_config *)

\* the order of SLOTS.items(), of "for density in Density" and of
\* "for edges in Edges"
SlotOrder == <<"1x1", "0p5x1", "1x0p5", "0p5x0p5">>

DensityOrder == <<"def", "max", "spc", "num">>

EdgesOrder == <<"all", "top", "lft", "hor", "ver", "nwc", "sec">>

\* the iterations of the three nested loops
NumTriples == Len(SlotOrder) * Len(DensityOrder) * Len(EdgesOrder)

\* the (slot, density, edges) of the i-th iteration
TripleAt(i) ==
    LET per_slot == Len(DensityOrder) * Len(EdgesOrder)
    IN [slot |-> SlotOrder[((i - 1) \div per_slot) + 1],
        density |-> DensityOrder[(((i - 1) % per_slot) \div Len(EdgesOrder)) + 1],
        edges |-> EdgesOrder[((i - 1) % Len(EdgesOrder)) + 1]]

\* mutant of SkipRefSlot: only SPC is skipped for the 1x1 slot
SkipRefSlot_SpcOnly(slot_name, d) == slot_name = "1x1" /\ d = "spc"

\* slot_name == "1x1" and density in (Density.SPC, Density.NUM)
SkipRefSlot(slot_name, d) == slot_name = "1x1" /\ d \in {"spc", "num"}

\* density == Density.DEF and edges != Edges.ALL
SkipDefPartial(d, ed) == d = "def" /\ ed # "all"

\* density == Density.DEF and edges == Edges.ALL
IsDefAll(d, ed) == d = "def" /\ ed = "all"

\* the directory with the file name set to the text
SetFile(fs, name, text) == [x \in DOMAIN fs \cup {name} |-> IF x = name THEN text ELSE fs[x]]

\* the content of the reference file slot_<name>.yaml
ReferenceText(slot_name) == [kind |-> "reference", slot |-> slot_name]

\* the text copy_default_config writes: the comment lines, then the content read
CopiedText(slot_name, read) ==
    [kind |-> "copied", slot |-> slot_name, density |-> "def", edges |-> "all",
     content |-> read]

\* what main can tell of the file generate_config_yaml writes for a triple
GeneratedText(s, d, ed) ==
    [kind |-> "generated", slot |-> s.name, density |-> d, edges |-> ed,
     total_pads |-> calculate_pads_for_density(s, d, ed).total]

\* mutant of copy_default_config: dest is opened for writing before source is
\* opened for reading
copy_default_config_DestFirst(slot_name, present, fs) ==
    LET dest == Filename(slot_name, "def", "all")
    IN IF slot_name \in present
       THEN [raised |-> FALSE, path |-> dest, read |-> ReferenceText(slot_name),
             files |-> SetFile(fs, dest, CopiedText(slot_name, ReferenceText(slot_name)))]
       ELSE [raised |-> TRUE, path |-> dest, read |-> NoFile.text,
             files |-> SetFile(fs, dest, [kind |-> "empty"])]

\* copy_default_config(slot_name, output_dir): source is opened and read, then
\* dest is opened and written; open(source) raises when the file is absent
copy_default_config(slot_name, present, fs) ==
    LET dest == Filename(slot_name, "def", "all")
    IN IF slot_name \in present
       THEN [raised |-> FALSE, path |-> dest, read |-> ReferenceText(slot_name),
             files |-> SetFile(fs, dest, CopiedText(slot_name, ReferenceText(slot_name)))]
       ELSE [raised |-> TRUE, path |-> dest, read |-> NoFile.text, files |-> fs]

\* the loops move to the next (slot, density, edges)
AdvanceLoop ==
    /\ m_i' = m_i + 1
    /\ IF m_i + 1 <= NumTriples
       THEN LET t == TripleAt(m_i + 1)
            IN /\ slot' = SLOTS[t.slot]
               /\ density' = t.density
               /\ edges' = t.edges
               /\ max_pads' = calculate_max_pads_per_edge(SLOTS[t.slot])
       ELSE UNCHANGED <<slot, density, edges, max_pads>>

\* main at its first iteration, the output directory empty, any set of
\* reference files present
InitMain ==
    /\ slot = SLOTS[SlotOrder[1]]
    /\ density = DensityOrder[1]
    /\ edges = EdgesOrder[1]
    /\ iter_order = <<>>
    /\ pc = "main"
    /\ max_pads = calculate_max_pads_per_edge(SLOTS[SlotOrder[1]])
    /\ total_pads = 0
    /\ pads_per_edge = EmptyMap
    /\ signal_pads = 0
    /\ power_pads = 0
    /\ edge_signal = EmptyMap
    /\ edge_power = EmptyMap
    /\ signal_remaining = 0
    /\ power_remaining = 0
    /\ sorted_edges = <<>>
    /\ loop_i = 0
    /\ bidir_idx = 0
    /\ vdd_idx = 0
    /\ vss_idx = 0
    /\ yaml_data = NoPads
    /\ InitGen
    /\ InitOut
    /\ m_pc = "loop"
    /\ m_i = 1
    /\ ref_present \in SUBSET SlotNames
    /\ files = NoFiles
    /\ generated_files = <<>>
    /\ content = NoFile.text

\* what no step of main changes
MainFrame ==
    UNCHANGED <<iter_order, pc, pads_per_edge, partVars, allocVars, cfgVars, genVars,
                outVars, ref_present>>

\* "continue" for SPC and NUM on the 1x1 slot
MainSkipRefSlot ==
    /\ m_pc = "loop" /\ m_i <= NumTriples
    /\ SkipRefSlot(slot.name, density)
    /\ AdvanceLoop
    /\ UNCHANGED <<m_pc, files, generated_files, content, total_pads>>
    /\ MainFrame

\* "continue" for DEF with an edge selection other than ALL
MainSkipDefPartial ==
    /\ m_pc = "loop" /\ m_i <= NumTriples
    /\ ~SkipRefSlot(slot.name, density)
    /\ SkipDefPartial(density, edges)
    /\ AdvanceLoop
    /\ UNCHANGED <<m_pc, files, generated_files, content, total_pads>>
    /\ MainFrame

\* DEF + ALL: copy_default_config returns, or raises and main ends with it
MainCopy ==
    /\ m_pc = "loop" /\ m_i <= NumTriples
    /\ ~SkipRefSlot(slot.name, density)
    /\ ~SkipDefPartial(density, edges)
    /\ IsDefAll(density, edges)
    /\ LET r == copy_default_config(slot.name, ref_present, files)
       IN /\ files' = r.files
          /\ content' = r.read
          /\ IF r.raised
             THEN /\ m_pc' = "error"
                  /\ UNCHANGED <<m_i, slot, density, edges, max_pads, generated_files>>
             ELSE /\ generated_files' = Append(generated_files, r.path)
                  /\ AdvanceLoop
                  /\ UNCHANGED m_pc
    /\ UNCHANGED total_pads
    /\ MainFrame

\* any other triple: calculate_pads_for_density, then generate_config_yaml
MainGenerate ==
    /\ m_pc = "loop" /\ m_i <= NumTriples
    /\ ~SkipRefSlot(slot.name, density)
    /\ ~SkipDefPartial(density, edges)
    /\ ~IsDefAll(density, edges)
    /\ total_pads' = calculate_pads_for_density(slot, density, edges).total
    /\ files' = SetFile(files, Filename(slot.name, density, edges),
                        GeneratedText(slot, density, edges))
    /\ generated_files' = Append(generated_files, Filename(slot.name, density, edges))
    /\ AdvanceLoop
    /\ UNCHANGED <<m_pc, content>>
    /\ MainFrame

\* the loops are exhausted: the summary is printed and main returns
MainFinish ==
    /\ m_pc = "loop" /\ m_i > NumTriples
    /\ m_pc' = "finished"
    /\ UNCHANGED <<m_i, slot, density, edges, max_pads, total_pads, files,
                   generated_files, content>>
    /\ MainFrame

NextMain ==
    \/ MainSkipRefSlot
    \/ MainSkipDefPartial
    \/ MainCopy
    \/ MainGenerate
    \/ MainFinish

\* main on an empty output directory, with any set of reference files
SpecMain == InitMain /\ [][NextMain]_vars

---------------------------------------------------------------------------
(* Claims *)

\* the three passes of generate_config_yaml have run
AllocDone == pc \in {"yaml", "pads", "pads_wait", "write", "done", "parsed"}

\* the passes are running or have run
AllocRunning == pc \in {"proportional", "signal_rem", "power_rem"} \/ AllocDone

\* C1: after the three passes the per-edge signal counts sum to the signal
\* budget signal_pads + 2, the per-edge power counts sum to power_pads, and
\* signal_remaining and power_remaining are both 0.
C1_Conservation ==
    AllocDone =>
        /\ SumOver(edge_signal, active_edges(edges)) = signal_pads + 2
        /\ SumOver(edge_power, active_edges(edges)) = power_pads
        /\ signal_remaining = 0
        /\ power_remaining = 0

\* C1 witness: a four-edge allocation whose first pass left a signal and a
\* power remainder has finished
C1_Witness ==
    /\ AllocDone
    /\ edges = "all"
    /\ power_pads > 0
    /\ FirstPass(AllocState(EmptyMap, EmptyMap, signal_pads + 2, power_pads),
                 iter_order, 1, pads_per_edge, total_pads, signal_pads + 2,
                 power_pads).signal_remaining > 0
    /\ FirstPass(AllocState(EmptyMap, EmptyMap, signal_pads + 2, power_pads),
                 iter_order, 1, pads_per_edge, total_pads, signal_pads + 2,
                 power_pads).power_remaining > 0
    /\ SumOver(edge_signal, active_edges(edges)) = signal_pads + 2

\* C2: at every step of the three passes every allocated edge has
\* 0 <= edge_signal[e], 0 <= edge_power[e] and
\* edge_signal[e] + edge_power[e] <= pads_per_edge[e].
C2_CapacityBound ==
    AllocRunning =>
        \A e \in DOMAIN edge_signal :
            /\ 0 <= edge_signal[e]
            /\ 0 <= edge_power[e]
            /\ edge_signal[e] + edge_power[e] <= pads_per_edge[e]

\* C2 witness: an edge filled to its capacity by the remainder passes
C2_Witness ==
    /\ pc = "power_rem"
    /\ \E e \in DOMAIN edge_signal :
          /\ edge_power[e] > 0
          /\ edge_signal[e] + edge_power[e] = pads_per_edge[e]
    /\ \E e \in DOMAIN edge_signal :
          edge_signal[e] + edge_power[e] < pads_per_edge[e]

\* calculate_pads_for_density has returned
Resolved == pc \notin {"resolve", "capacity", "capacity_done", "edge_pads", "main"}

\* the policy total of the DEF and NUM modes
PolicyTotal(d, slot_name) ==
    IF d = "def" THEN DEFAULT_PAD_COUNTS[slot_name] ELSE REF_1X1_PAD_COUNT

\* C3: for DEF and NUM, every slot and every edge selection, the per-edge
\* targets of calculate_pads_for_density sum to exactly
\* min(policyTotal, sum of the capacities of the active edges).
C3_TargetsSumToPolicyTotal ==
    (Resolved /\ density \in {"def", "num"}) =>
        SumOver(pads_per_edge, DOMAIN pads_per_edge) =
            Min(PolicyTotal(density, slot.name),
                SumOver(max_pads, active_edges(edges)))

\* C4: the list returned by generate_edge_pads has exactly
\* signal_count + power_count entries (signal_count >= 2 when the edge hosts
\* clk/rst), also when no signal pad is left after clk/rst and power_count > 0.
C4_LengthIsSignalPlusPower ==
    (/\ g_pc = "returned"
     /\ (g_args.include_clk_rst => g_args.signal_count >= 2)) =>
        Len(g_pads) = g_args.signal_count + g_args.power_count

\* C5: the per-edge (signal, power) allocation is a function of (slot, density,
\* edge selection) alone: the allocation of a run equals the allocation the
\* three passes give under every other iteration order of the active-edge set.
C5_OrderIndependent ==
    AllocDone =>
        \A o \in Orderings(active_edges(edges)) :
            LET r == AllocateEdges(o, pads_per_edge, total_pads, signal_pads, power_pads)
            IN /\ r.edge_signal = edge_signal
               /\ r.edge_power = edge_power

\* C6: in every density mode each per-edge target is between 0 and the edge's
\* capacity, and the returned total is the sum of the targets, so it never
\* exceeds the summed capacity of the active edges.
C6_TargetsWithinCapacity ==
    Resolved =>
        /\ \A e \in DOMAIN pads_per_edge :
              0 <= pads_per_edge[e] /\ pads_per_edge[e] <= max_pads[e]
        /\ total_pads = SumOver(pads_per_edge, DOMAIN pads_per_edge)
        /\ total_pads <= SumOver(max_pads, active_edges(edges))

\* C6 witness: the quarter slot in NUM mode on all edges, where the remainder
\* left for the last edge is larger than its capacity and is capped
C6_Witness ==
    /\ Resolved
    /\ slot.name = "0p5x0p5"
    /\ density = "num"
    /\ edges = "all"
    /\ pads_per_edge["west"] = max_pads["west"]
    /\ total_pads - pads_per_edge["west"] + max_pads["west"] < REF_1X1_PAD_COUNT
    /\ REF_1X1_PAD_COUNT < SumOver(max_pads, active_edges(edges))

\* C7: for MAX density the target of each active edge is the edge's capacity
\* and the total is the sum of the active edges' capacities.
C7_MaxTargetsAreCapacities ==
    (Resolved /\ density = "max") =>
        /\ \A e \in active_edges(edges) :
              e \in DOMAIN pads_per_edge /\ pads_per_edge[e] = max_pads[e]
        /\ total_pads = SumOver(max_pads, active_edges(edges))

\* C7 witness: the quarter slot, MAX density, one active edge at full capacity
C7_Witness ==
    /\ Resolved
    /\ slot.name = "0p5x0p5"
    /\ density = "max"
    /\ edges = "lft"
    /\ pads_per_edge["west"] = EdgeCapacity(slot.die_height)
    /\ pads_per_edge["west"] > 0
    /\ total_pads = pads_per_edge["west"]

\* C8: a die width or height below two corner cells plus two seal rings gives
\* capacity 0 for the affected edge pair, and no capacity is ever negative.
C8_UndersizedZero ==
    pc = "capacity_done" =>
        /\ \A e \in Edge : max_pads[e] >= 0
        /\ (slot.die_width < 2 * CORNER_CELL_SIZE + 2 * SEAL_RING =>
                max_pads["north"] = 0 /\ max_pads["south"] = 0)
        /\ (slot.die_height < 2 * CORNER_CELL_SIZE + 2 * SEAL_RING =>
                max_pads["east"] = 0 /\ max_pads["west"] = 0)

\* C9: the power count of distribute_pads_with_power is even for every slot
\* and every total >= 0, before and after the power cap.
C9_PowerEven ==
    pc \in {"clamp", "setup"} => power_pads % 2 = 0

\* C9 witness: a returned power count that the cap has cut down
C9_Witness ==
    /\ pc = "setup"
    /\ power_pads = get_rtl_power_limit(slot.name)
    /\ RatioPower(total_pads - 2) > get_rtl_power_limit(slot.name)

\* C10: distribute_pads_with_power returns signal + 2 <= signal cap,
\* power <= power cap and signal + power + 2 <= total; the clamp never raises
\* a count, and when neither cap binds signal + power + 2 = total.
C10_PartitionCaps ==
    /\ [](pc = "setup" =>
            /\ signal_pads + 2 <= get_rtl_signal_limit(slot.name)
            /\ power_pads <= get_rtl_power_limit(slot.name)
            /\ signal_pads + power_pads + 2 <= total_pads)
    /\ [][pc = "clamp" =>
            /\ signal_pads' <= signal_pads
            /\ power_pads' <= power_pads
            /\ ((/\ signal_pads + 2 <= get_rtl_signal_limit(slot.name)
                 /\ power_pads <= get_rtl_power_limit(slot.name)) =>
                    signal_pads' + power_pads' + 2 = total_pads)]_vars

\* C10 witness: a returned pair where both caps have cut the counts down
C10_Witness ==
    /\ pc = "setup"
    /\ signal_pads + 2 = get_rtl_signal_limit(slot.name)
    /\ power_pads = get_rtl_power_limit(slot.name)
    /\ signal_pads + power_pads + 2 < total_pads

\* C11: on an edge that hosts clk/rst, with reverse true or false, the returned
\* list starts with clk_pad, rst_n_pad, and the reversal only permutes the
\* list: entries 3.. of the result are entries 3.. of the unreversed list in
\* opposite order (in the same order when reverse is false).
C11_ClkRstStayInFront ==
    [][(g_pc = "reverse" /\ g_args.include_clk_rst) =>
          /\ Len(g_pads') = Len(g_pads)
          /\ g_pads'[1] = Pad("clk_pad", 0)
          /\ g_pads'[2] = Pad("rst_n_pad", 0)
          /\ \A i \in 3..Len(g_pads) :
                g_pads'[i] = IF g_args.reverse THEN g_pads[Len(g_pads) + 3 - i]
                             ELSE g_pads[i]]_vars

\* C11 witness: a reversed list with clk/rst in front of interleaved signal and
\* power pads
C11_Witness ==
    /\ g_pc = "returned"
    /\ g_args.include_clk_rst
    /\ g_args.reverse
    /\ g_args.power_count > 0
    /\ Len(g_pads) >= 6
    /\ g_pads[1] = Pad("clk_pad", 0)
    /\ g_pads[2] = Pad("rst_n_pad", 0)
    /\ g_pads[Len(g_pads)] = Pad("bidir", g_args.bidir_start)

\* the file of the run has been written
Written == pc \in {"done", "parsed"}

\* the four pad lists of a file, in generation order south, east, north, west
PadLists(text) == <<text.PAD_SOUTH, text.PAD_EAST, text.PAD_NORTH, text.PAD_WEST>>

\* the positions of a pad list that hold a pad of a category
PositionsOf(pads, category) == {i \in 1..Len(pads) : pads[i].kind = category}

\* the indices a pad list uses in a category
IndicesOf(pads, category) == {pads[i].idx : i \in PositionsOf(pads, category)}

\* the number of pads of a category in the four lists
CountOf(lists, category) ==
    SumOver([k \in 1..Len(lists) |-> Cardinality(PositionsOf(lists[k], category))],
            1..Len(lists))

IndexedCategories == {"bidir", "dvdd_pads", "dvss_pads"}

\* C12: in the written file, for each category bidir, dvdd_pads, dvss_pads the
\* indices across the four pad lists are exactly 0..n-1 for n pads of the
\* category, no index is used twice, and every index on a later edge (order
\* south, east, north, west) is greater than every index of the category on an
\* earlier edge.
C12_GlobalIndices ==
    Written =>
        LET lists == PadLists(artifact.text)
        IN \A c \in IndexedCategories :
              /\ UNION {IndicesOf(lists[k], c) : k \in 1..4} = 0..(CountOf(lists, c) - 1)
              /\ \A k \in 1..4 :
                    Cardinality(IndicesOf(lists[k], c)) =
                        Cardinality(PositionsOf(lists[k], c))
              /\ \A k1 \in 1..4, k2 \in 1..4 :
                    k1 < k2 => \A a \in IndicesOf(lists[k1], c),
                                  b \in IndicesOf(lists[k2], c) : a < b

C12_Witness ==
    /\ Written
    /\ edges = "all"
    /\ LET lists == PadLists(artifact.text)
       IN /\ \A k \in 1..4 : IndicesOf(lists[k], "bidir") # {}
          /\ \E k \in 2..4 : 0 \notin IndicesOf(lists[k], "dvdd_pads")
                             /\ IndicesOf(lists[k], "dvdd_pads") # {}
          /\ \E k \in 2..4 : 0 \notin IndicesOf(lists[k], "dvss_pads")
                             /\ IndicesOf(lists[k], "dvss_pads") # {}

\* the power pads of a pad list, in list order
PowerOf(pads) ==
    LET IsPower(p) == p.kind \in {"dvss_pads", "dvdd_pads"}
    IN SelectSeq(pads, IsPower)

\* the list of an edge as generated, before the reversal of north and west
BeforeReversal(pads, edge_name, ed) ==
    ApplyReverse(pads, ClkRstEdge(active_edges(ed)) = edge_name, IsReversed(edge_name))

\* the power pads of a file in generation order: south, east, north, west, each
\* edge before reversal
PowerInGenerationOrder(text, ed) ==
    LET lists == PadLists(text)
    IN PowerOf(BeforeReversal(lists[1], Directions[1], ed)) \o
       PowerOf(BeforeReversal(lists[2], Directions[2], ed)) \o
       PowerOf(BeforeReversal(lists[3], Directions[3], ed)) \o
       PowerOf(BeforeReversal(lists[4], Directions[4], ed))

\* the pad lists are being generated, or have been
PadsRunning == pc \in {"pads", "pads_wait", "write", "done", "parsed"}

\* C13: the k-th power pad in generation order (k from 0, each edge before
\* reversal) is dvss for even k and dvdd for odd k, across edges; while the
\* lists are generated the dvss count minus the dvdd count is 0 or 1, inside
\* an edge and between edges; the counts are equal at the end when the power
\* budget is even.
C13_PolarityAlternates ==
    /\ PadsRunning =>
          /\ vss_idx - vdd_idx \in {0, 1}
          /\ (g_pc \in {"loop", "reverse", "returned"}) => g_vss_idx - g_vdd_idx \in {0, 1}
    /\ Written =>
          LET pw == PowerInGenerationOrder(artifact.text, edges)
          IN /\ Len(pw) = power_pads
             /\ \A k \in 0..(Len(pw) - 1) :
                   pw[k + 1].kind = IF k % 2 = 0 THEN "dvss_pads" ELSE "dvdd_pads"
             /\ (power_pads % 2 = 0) => vss_idx = vdd_idx

\* all four edges carry power pads and an edge boundary falls after an odd
\* number of them
C13_Witness ==
    /\ Written
    /\ edges = "all"
    /\ power_pads >= 4
    /\ \A k \in 1..4 : PowerOf(PadLists(artifact.text)[k]) # <<>>
    /\ Len(PowerOf(artifact.text.PAD_SOUTH)) % 2 = 1
    /\ PowerOf(BeforeReversal(artifact.text.PAD_EAST, "east", edges))[1].kind = "dvdd_pads"

\* the four pad lists have all been built
ListsBuilt == pc \in {"write", "done", "parsed"}

\* C14: an edge the selection excludes has no entry in the per-edge target map
\* of calculate_pads_for_density; once the lists are built all four of
\* PAD_SOUTH, PAD_EAST, PAD_NORTH, PAD_WEST are present, in yaml_data and in the
\* file; the list of an excluded edge is empty at every point, so only active
\* edges receive a pad instance.
C14_ClosedEdges ==
    /\ Resolved => DOMAIN pads_per_edge = active_edges(edges)
    /\ \A e \in DOMAIN yaml_data : e \notin active_edges(edges) => yaml_data[e] = <<>>
    /\ ListsBuilt => DOMAIN yaml_data = {"south", "east", "north", "west"}
    /\ Written =>
          /\ {"PAD_SOUTH", "PAD_EAST", "PAD_NORTH", "PAD_WEST"} \subseteq DOMAIN artifact.text
          /\ \A k \in 1..4 :
                Directions[k] \notin active_edges(edges) => PadLists(artifact.text)[k] = <<>>

\* a file with closed edges and pads on the open ones
C14_Witness ==
    /\ Written
    /\ edges = "nwc"
    /\ artifact.text.PAD_SOUTH = <<>> /\ artifact.text.PAD_EAST = <<>>
    /\ Len(artifact.text.PAD_NORTH) > 2 /\ Len(artifact.text.PAD_WEST) > 2
    /\ DOMAIN pads_per_edge = {"north", "west"}

\* the elements of a list
Range(s) == {s[i] : i \in 1..Len(s)}

\* the categories of the override flags: the name in the flag, the pad kind in
\* the lists, the key of RTL_PAD_MAX_DEFAULTS
OverrideCategories ==
    {[flag |-> "BIDIR", kind |-> "bidir", key |-> "bidir"],
     [flag |-> "DVDD", kind |-> "dvdd_pads", key |-> "dvdd"],
     [flag |-> "DVSS", kind |-> "dvss_pads", key |-> "dvss"]}

\* C15: the flag list of the written file starts with the slot's flag; for DEF
\* it has nothing else; for MAX, SPC and NUM it has MAX_IO_CONFIG and, per
\* category, the flag NUM_<CATEGORY>_PADS_OVERRIDE=<N> exactly when N, the
\* number of pads of the category in the four lists, differs from the slot's
\* RTL_PAD_MAX_DEFAULTS entry, and no override flag with another number.
C15_BuildFlags ==
    Written =>
        LET defs == artifact.text.VERILOG_DEFINES
            lists == PadLists(artifact.text)
        IN /\ Len(defs) >= 1
           /\ defs[1] = slot.verilog_define
           /\ density = "def" => Len(defs) = 1
           /\ density # "def" =>
                 /\ "MAX_IO_CONFIG" \in Range(defs)
                 /\ \A c \in OverrideCategories :
                       LET N == CountOf(lists, c.kind)
                           default == RTL_PAD_MAX_DEFAULTS[slot.name][c.key]
                       IN /\ OverrideFlag(c.flag, N) \in Range(defs) <=> N # default
                          /\ \A n \in 0..MaxTotal :
                                OverrideFlag(c.flag, n) \in Range(defs) => n = N

\* a file of a density other than DEF with two overrides and one category at
\* its default
C15_Witness ==
    /\ Written
    /\ density # "def"
    /\ Len(artifact.text.VERILOG_DEFINES) = 4
    /\ \E c \in OverrideCategories :
          CountOf(PadLists(artifact.text), c.kind) = RTL_PAD_MAX_DEFAULTS[slot.name][c.key]

\* the written file has been parsed by parse_slot_yaml
Parsed == pc = "parsed"

\* the number of pad instances in the four lists of a file
PadInstances(text) ==
    Len(text.PAD_SOUTH) + Len(text.PAD_EAST) + Len(text.PAD_NORTH) + Len(text.PAD_WEST)

\* C16: for the file written by generate_config_yaml, parse_slot_yaml returns
\* the die width/height of the slot, the width/height of the core rectangle the
\* file was generated with, io_bidir = signal_pads, io_inputs = 2,
\* io_power_pairs = power_pads / 2, and io_total = signal_pads + 2 + power_pads,
\* the number of pad instances in the file.
C16_RoundTrip ==
    Parsed =>
        /\ slot_info.die_width_um = slot.die_width
        /\ slot_info.die_height_um = slot.die_height
        /\ slot_info.core_width_um = core_area[3] - core_area[1]
        /\ slot_info.core_height_um = core_area[4] - core_area[2]
        /\ slot_info.core_width_um =
              CoreArea(slot, density, active_edges(edges))[3] -
              CoreArea(slot, density, active_edges(edges))[1]
        /\ slot_info.io_bidir = signal_pads
        /\ slot_info.io_inputs = 2
        /\ slot_info.io_power_pairs * 2 = power_pads
        /\ io_total(slot_info) = signal_pads + 2 + power_pads
        /\ io_total(slot_info) = PadInstances(artifact.text)

\* a parsed file with closed edges, power pairs and a core rectangle that is
\* not the slot's default
C16_Witness ==
    /\ Parsed
    /\ density = "max" /\ edges = "sec"
    /\ slot_info.io_power_pairs >= 2
    /\ slot_info.io_bidir > slot_info.io_power_pairs
    /\ slot_info.core_width_um # slot.core_x2 - slot.core_x1

\* every (slot, density, edge selection)
AllTriples == {[slot |-> n, density |-> d, edges |-> ed] :
                  n \in SlotNames, d \in Density, ed \in Edges}

\* the applicable triples: not SPC or NUM on the 1x1 slot, DEF only with ALL
Applicable(t) ==
    /\ ~(t.slot = "1x1" /\ t.density \in {"spc", "num"})
    /\ ~(t.density = "def" /\ t.edges # "all")

\* the file name of a triple
TripleFile(t) == Filename(t.slot, t.density, t.edges)

\* main has returned
MainFinished == m_pc = "finished"

\* C17: when main returns, the output directory holds exactly the files of
\* the applicable triples, one per triple under pairwise distinct names, each
\* written once; none for SPC or NUM on 1x1 nor for DEF with an edge selection
\* other than ALL; the file of DEF with ALL is the copy of the reference
\* config and every other one comes from the generator for its own triple;
\* there are 74 files, 8 for 1x1 and 22 for each other slot.
C17_BatchCoverage ==
    /\ \A f \in DOMAIN files : \E t \in AllTriples : Applicable(t) /\ f = TripleFile(t)
    /\ MainFinished =>
          LET app == {t \in AllTriples : Applicable(t)}
          IN /\ DOMAIN files = {TripleFile(t) : t \in app}
             /\ \A t1 \in app, t2 \in app : t1 # t2 => TripleFile(t1) # TripleFile(t2)
             /\ Len(generated_files) = Cardinality(app)
             /\ Range(generated_files) = DOMAIN files
             /\ \A t \in app :
                   /\ files[TripleFile(t)].slot = t.slot
                   /\ files[TripleFile(t)].density = t.density
                   /\ files[TripleFile(t)].edges = t.edges
                   /\ files[TripleFile(t)].kind =
                         IF t.density = "def" THEN "copied" ELSE "generated"
                   /\ t.density = "def" =>
                         files[TripleFile(t)].content = ReferenceText(t.slot)
             /\ Cardinality(DOMAIN files) = 74
             /\ \A n \in SlotNames :
                   Cardinality({t \in app : t.slot = n}) = IF n = "1x1" THEN 8 ELSE 22

C17_Witness ==
    /\ MainFinished
    /\ ref_present = SlotNames
    /\ Len(generated_files) = 74
    /\ "slot_1x1_def_all.yaml" \in DOMAIN files
    /\ "slot_0p5x0p5_num_sec.yaml" \in DOMAIN files
    /\ "slot_1x1_num_all.yaml" \notin DOMAIN files

\* main has ended with the exception of copy_default_config
MainRaised == m_pc = "error"

\* copy_default_config is about to be called for a slot without reference file
CopyWithoutReference ==
    /\ m_pc = "loop" /\ m_i <= NumTriples
    /\ ~SkipRefSlot(slot.name, density)
    /\ IsDefAll(density, edges)
    /\ slot.name \notin ref_present

\* C18: when slot_<name>.yaml is absent, the call of copy_default_config ends
\* in an error that reaches the caller (main ends with it), it leaves the
\* output directory as it was, and slot_<name>_def_all.yaml does not exist
\* afterwards, neither empty nor with other content.
C18_MissingReference ==
    [][CopyWithoutReference =>
          /\ m_pc' = "error"
          /\ files' = files
          /\ generated_files' = generated_files
          /\ Filename(slot.name, "def", "all") \notin DOMAIN files']_vars

\* main has ended with the error after files of earlier slots were written
C18_Witness ==
    /\ MainRaised
    /\ slot.name = "1x0p5"
    /\ slot.name \notin ref_present
    /\ "slot_0p5x1_num_sec.yaml" \in DOMAIN files
    /\ "slot_1x0p5_def_all.yaml" \notin DOMAIN files

\* C19: when the generation of one file fails (the reference config of a slot
\* is missing), only that file is missing at the end of main: every other
\* applicable triple has its file.
C19_FailureIsolation ==
    (MainFinished \/ MainRaised) =>
        \A t \in AllTriples :
            (Applicable(t) /\ ~(t.density = "def" /\ t.slot \notin ref_present))
                => TripleFile(t) \in DOMAIN files

\* the run is the reference scenario: the 1x1 slot, DEF density, all edges
ReferenceScenario == slot.name = "1x1" /\ density = "def" /\ edges = "all"

\* distribute_pads_with_power has returned
Partitioned == Resolved /\ pc \notin {"partition", "clamp"}

\* C20: for the 1x1 slot with DEF density and all four edges the per-edge
\* targets of the density resolver sum to exactly 74, each target is at most
\* the capacity of its edge, the capacities are 42 for north and south and 58
\* for east and west, and distribute_pads_with_power on the total 74 returns
\* an even power count.
C20_ReferenceScenario ==
    ReferenceScenario =>
        /\ Resolved =>
              /\ DOMAIN pads_per_edge = Edge
              /\ SumOver(pads_per_edge, Edge) = 74
              /\ total_pads = 74
              /\ \A e \in Edge : pads_per_edge[e] <= max_pads[e]
              /\ max_pads["north"] = 42 /\ max_pads["south"] = 42
              /\ max_pads["east"] = 58 /\ max_pads["west"] = 58
        /\ Partitioned =>
              /\ power_pads % 2 = 0
              /\ signal_pads + power_pads + 2 = 74

C20_Witness ==
    /\ ReferenceScenario
    /\ Partitioned
    /\ pc = "setup"
    /\ total_pads = 74
    /\ power_pads = 10 /\ signal_pads = 62
    /\ pads_per_edge["west"] = 23

\* the number of signal pads the next iteration of the interleaving loop places
NextRun == Max0(Min(signals_per_power, g_signal_count - signal_placed))

\* the interleaving loop is at its test and the test holds
InLoopBody == g_pc = "loop" /\ InterleaveMore

\* C21: the interleaving loop of generate_edge_pads exits: whenever the loop
\* test holds, the iteration that follows places a signal pad or a power pad,
\* so that the pads still to place decrease until the test fails and the
\* function returns. An iteration that places nothing leaves signal_placed,
\* power_placed and the test as they are, and the loop runs forever.
C21_LoopTerminates ==
    InLoopBody => (NextRun > 0 \/ power_placed < g_args.power_count)

\* generate_edge_pads has built its list and not yet reversed it
Unreversed == g_pc = "reverse"

\* the list after the clk/rst prefix
AfterPrefix == IF g_args.include_clk_rst THEN From3(g_pads) ELSE g_pads

IsPowerPad(p) == p.kind \in {"dvss_pads", "dvdd_pads"}

\* C22: before the reversal, after the clk/rst prefix: with power_count p > 0
\* and s >= p + 1 signal pads left after clk/rst, the list has s + p entries,
\* every power pad is preceded by exactly g = s div (p + 1) signal pads (so no
\* two power pads are adjacent), and the s - p * g leftover signal pads follow
\* the last power pad; with power_count 0 the list is the s signal pads with
\* consecutive indices from bidir_start.
C22_InterleavingShape ==
    Unreversed =>
        LET s == g_signal_count
            p == g_args.power_count
            g == s \div (p + 1)
            body == AfterPrefix
        IN /\ (p > 0 /\ s >= p + 1) =>
                 /\ g >= 1
                 /\ Len(body) = s + p
                 /\ \A j \in 1..p :
                       /\ IsPowerPad(body[j * (g + 1)])
                       /\ \A i \in 1..g : body[(j - 1) * (g + 1) + i].kind = "bidir"
                 /\ \A i \in (p * (g + 1) + 1)..(s + p) : body[i].kind = "bidir"
                 /\ \A i \in 1..(Len(body) - 1) :
                       ~(IsPowerPad(body[i]) /\ IsPowerPad(body[i + 1]))
           /\ (p = 0 /\ s >= 0) =>
                 /\ Len(body) = s
                 /\ \A i \in 1..s : body[i] = Pad("bidir", g_args.bidir_start + i - 1)

\* three power pads among the six signal pads left after clk/rst: one signal
\* pad before each power pad and three leftover signal pads at the end
C22_Witness ==
    /\ Unreversed
    /\ g_args.include_clk_rst
    /\ g_args.power_count = 3
    /\ g_signal_count = 6
    /\ Len(AfterPrefix) = 9
    /\ IsPowerPad(AfterPrefix[2]) /\ IsPowerPad(AfterPrefix[6])
    /\ AfterPrefix[9].kind = "bidir"

\* the last active edge in lexicographic order of the names east, north,
\* south, west
LexLast(active) ==
    IF "west" \in active THEN "west"
    ELSE IF "south" \in active THEN "south"
    ELSE IF "north" \in active THEN "north"
    ELSE "east"

\* C23: for DEF and NUM, with T = min(policy total, total capacity of the
\* active edges), every active edge except the lexicographically last gets
\* min(capacity[e], floor(T * capacity[e] / totalCapacity)) and the last one
\* (west for the all-edges selection) gets min(T - sum of the others,
\* capacity[last]).
C23_RemainderToLastEdge ==
    (Resolved /\ density \in {"def", "num"}) =>
        LET active == active_edges(edges)
            totalCapacity == SumOver(max_pads, active)
            policy == IF density = "def" THEN DEFAULT_PAD_COUNTS[slot.name]
                      ELSE REF_1X1_PAD_COUNT
            T == Min(policy, totalCapacity)
            last == LexLast(active)
            others == active \ {last}
        IN /\ edges = "all" => last = "west"
           /\ \A e \in others :
                 pads_per_edge[e] = Min(max_pads[e], (T * max_pads[e]) \div totalCapacity)
           /\ pads_per_edge[last] = Min(T - SumOver(pads_per_edge, others), max_pads[last])

\* the last edge gets more than its proportional share and is capped at its
\* capacity
C23_Witness ==
    /\ Resolved
    /\ density = "num" /\ edges = "all" /\ slot.name = "0p5x0p5"
    /\ pads_per_edge["west"] = max_pads["west"]
    /\ pads_per_edge["west"] > (74 * max_pads["west"]) \div SumOver(max_pads, Edge)
    /\ pads_per_edge["east"] < max_pads["east"]

\* every count of the map f is kept or raised in the step
NonDecreasing(f, g) == \A e \in DOMAIN f : e \in DOMAIN g /\ g[e] >= f[e]

\* C24: the power remainder pass is entered only from the end of the signal
\* remainder pass (its list exhausted or signal_remaining at 0) and is never
\* left for an earlier pass; no step of it changes edge_signal or
\* signal_remaining; and no step of the three passes lowers an edge_signal or
\* edge_power count.
C24_PassOrdering ==
    [][/\ (pc' = "power_rem" /\ pc # "power_rem") =>
              /\ pc = "signal_rem"
              /\ (loop_i > Len(sorted_edges) \/ signal_remaining <= 0)
       /\ pc = "power_rem" =>
              /\ pc' \notin {"proportional", "signal_rem"}
              /\ edge_signal' = edge_signal
              /\ signal_remaining' = signal_remaining
       /\ AllocRunning =>
              /\ NonDecreasing(edge_signal, edge_signal')
              /\ NonDecreasing(edge_power, edge_power')]_vars

\* the third pass has run on an edge that holds signal pads and has placed the
\* last of the power remainder there
C24_Witness ==
    /\ pc = "power_rem"
    /\ loop_i > 1
    /\ power_remaining = 0
    /\ edge_signal[sorted_edges[loop_i - 1]] > 0
    /\ edge_power[sorted_edges[loop_i - 1]] >
          RatioShare(power_pads, pads_per_edge[sorted_edges[loop_i - 1]], total_pads)

\* the first element of a sequence of edges that is in a set (the sequence
\* holds one)
FirstActive(order, active) ==
    order[CHOOSE i \in 1..Len(order) :
             /\ order[i] \in active
             /\ \A j \in 1..(i - 1) : order[j] \notin active]

\* the positions of a pad list that hold clk_pad or rst_n_pad
ClkRstPositions(pads) == {i \in 1..Len(pads) : pads[i].kind \in {"clk_pad", "rst_n_pad"}}

\* C25: the clk/rst host is an active edge: south when active, otherwise the
\* first active of west, east, north; in the written file the host's list
\* starts with clk_pad, rst_n_pad and holds them nowhere else, and no other
\* list holds either, so that each occurs exactly once.
C25_ClkRstHost ==
    Written =>
        LET active == active_edges(edges)
            host == FirstActive(<<"south", "west", "east", "north">>, active)
            lists == PadLists(artifact.text)
        IN /\ host \in active
           /\ \A k \in 1..4 :
                 IF Directions[k] = host
                 THEN /\ Len(lists[k]) >= 2
                      /\ lists[k][1] = Pad("clk_pad", 0)
                      /\ lists[k][2] = Pad("rst_n_pad", 0)
                      /\ ClkRstPositions(lists[k]) = {1, 2}
                 ELSE ClkRstPositions(lists[k]) = {}
           /\ CountOf(lists, "clk_pad") = 1
           /\ CountOf(lists, "rst_n_pad") = 1

\* south is closed and west, whose list is reversed, hosts clk/rst
C25_Witness ==
    /\ Written
    /\ edges = "nwc"
    /\ Len(artifact.text.PAD_WEST) > 4
    /\ artifact.text.PAD_WEST[1] = Pad("clk_pad", 0)
    /\ artifact.text.PAD_WEST[2] = Pad("rst_n_pad", 0)
    /\ ClkRstPositions(artifact.text.PAD_NORTH) = {}
    /\ Len(artifact.text.PAD_NORTH) > 4

\* the margin the core keeps from an edge: 442 when the edge is active, 130
\* when it is not
MarginOf(edge, active) == IF edge \in active THEN 442 ELSE 130

\* C26: the core rectangle of the written file is the slot's catalog core
\* rectangle for DEF, and [mW, mS, die_width - mE, die_height - mN] for MAX,
\* SPC and NUM, with the margin of an edge 442 when active and 130 when not;
\* for all four edges it is the catalog core rectangle of the slot whatever
\* the density; it lies strictly inside the die and x1 < x2, y1 < y2.
C26_CoreMargins ==
    Written =>
        LET core == artifact.text.CORE_AREA
            die == artifact.text.DIE_AREA
            active == active_edges(edges)
            catalog == <<slot.core_x1, slot.core_y1, slot.core_x2, slot.core_y2>>
        IN /\ density = "def" => core = catalog
           /\ density # "def" =>
                 core = <<MarginOf("west", active), MarginOf("south", active),
                          slot.die_width - MarginOf("east", active),
                          slot.die_height - MarginOf("north", active)>>
           /\ edges = "all" => core = catalog
           /\ die = <<0, 0, slot.die_width, slot.die_height>>
           /\ die[1] < core[1] /\ core[1] < core[3] /\ core[3] < die[3]
           /\ die[2] < core[2] /\ core[2] < core[4] /\ core[4] < die[4]

\* a file with only the west edge open: the reduced margin on the other three
C26_Witness ==
    /\ Written
    /\ density = "max" /\ edges = "lft" /\ slot.name = "0p5x0p5"
    /\ artifact.text.CORE_AREA =
          <<442, 130, slot.die_width - 130, slot.die_height - 130>>
    /\ artifact.text.CORE_AREA # <<slot.core_x1, slot.core_y1, slot.core_x2, slot.core_y2>>

\* C27: in the written file the pad list of every edge, clk_pad and rst_n_pad
\* included, has at most as many entries as calculate_max_pads_per_edge gives
\* for the edge, and the four lists together hold signal_pads + 2 + power_pads
\* entries, the numbers of the file's header.
C27_PhysicalFit ==
    Written =>
        LET lists == PadLists(artifact.text)
            capacity == calculate_max_pads_per_edge(slot)
        IN /\ \A k \in 1..4 : Len(lists[k]) <= capacity[Directions[k]]
           /\ PadInstances(artifact.text) =
                 artifact.text.signal_pads + 2 + artifact.text.power_pads
           /\ artifact.text.signal_pads = signal_pads
           /\ artifact.text.power_pads = power_pads

\* a file whose four lists are all filled to the capacity of their edges
C27_Witness ==
    /\ Written
    /\ density = "max" /\ edges = "all" /\ slot.name = "0p5x1"
    /\ \A k \in 1..4 :
          Len(PadLists(artifact.text)[k]) = calculate_max_pads_per_edge(slot)[Directions[k]]
    /\ PadInstances(artifact.text) = artifact.text.total_pads
    /\ artifact.text.power_pads > 0

====
